---- MODULE Spec2Model ----
(***************************************************************************)
(* prometheus-dnssec-exporter: Exporter.Collect and Exporter.resolve       *)
(* (src/main.go, the revision at lines 229-473).                           *)
(*                                                                         *)
(* Spec        : Collect calls one after the other on one Exporter, each   *)
(*               with one goroutine per (check, resolver) pair.            *)
(* SpecOverlap : two Collect calls of concurrent scrapes on one Exporter.  *)
(* SpecSuccessive : the Collect calls of successive scrapes.               *)
(* SpecFair    : Spec with a fair scheduler.                               *)
(* SpecClock   : Spec with a clock read at half hours.                     *)
(* SpecTransfer : Spec against a server that splits zone transfers.        *)
(* SpecResolve : one direct call e.resolve(&record, resolver), the way     *)
(*               src/main_test.go calls it, over a wide set of responses.  *)
(***************************************************************************)
EXTENDS Integers, Sequences, FiniteSets, TLC

VARIABLES
    Records,     \* Exporter.Records: the configured checks
    resolvers,   \* Exporter.resolvers: the ordered resolver list
    TsigInfo,    \* Exporter.TsigInfo: the key configured for a check
    other,       \* a second Collect call in progress, while it is not scheduled
    now,         \* the wall clock read by time.Until
    cpc,         \* where the Collect call stands
    cycle,       \* Collect calls started so far
    wg,          \* the sync.WaitGroup counter of the running Collect call
    rec,         \* rec := rec, one copy per check, shared by its goroutines
    unit,        \* per goroutine: position and the locals of resolve
    e_records,   \* GaugeVec dnssec_zone_record_days_left
    e_resolves,  \* GaugeVec dnssec_zone_record_resolves
    e_expiry,    \* GaugeVec dnssec_zone_record_earliest_rrsig_expiry
    ch,          \* what the running Collect call has sent on its channel
    wrote        \* history: the gauge writes of the running call's units

vars == <<Records, resolvers, TsigInfo, other, now, cpc, cycle, wg, rec, unit,
          e_records, e_resolves, e_expiry, ch, wrote>>

----------------------------------------------------------------------------
(* Bounds *)

MaxCycles == 2
MaxAnswer == 2
MaxExp == 2

----------------------------------------------------------------------------
(* Time.  A time.Time is modelled by its Unix second; the zero time.Time   *)
(* (1 January of year 1) lies before every time.Unix(n) with n >= 0 and is *)
(* modelled by ZeroTime.                                                   *)

Hour == 3600
ZeroTime == -1
MinDurationHours == -2562047

IsZero(t) == t = ZeroTime

Before(t, u) == t < u

\* time.Unix(int64(rrsig.Expiration), 0): never the zero time.Time
Unix(sec) == sec

\* division rounding down instead of toward zero
TruncDiv_Floor(a, b) == a \div b

TruncDiv(a, b) == IF a >= 0 THEN a \div b ELSE -((-a) \div b)

\* float64(time.Until(expires)/time.Hour) / 24, kept as the whole hours
\* (the gauge value is this number over 24).  time.Until of the zero
\* time.Time saturates at the smallest Duration.
DaysLeft(expires, clock) ==
    IF IsZero(expires) THEN MinDurationHours
    ELSE TruncDiv(expires - clock, Hour)

Clock == {Hour}

----------------------------------------------------------------------------
(* DNS data *)

Zone == "example.org"

TypeCodes == [SOA |-> 6, NS |-> 2, AXFR |-> 252, RRSIG |-> 46]

\* dns.StringToType: a Go map, a missing key reads as 0 (TypeNone)
StringToType(s) == IF s \in DOMAIN TypeCodes THEN TypeCodes[s] ELSE 0

\* dns.TypeToString: a Go map, a missing key reads as ""
TypeToString(t) ==
    IF \E s \in DOMAIN TypeCodes : TypeCodes[s] = t
    THEN CHOOSE s \in DOMAIN TypeCodes : TypeCodes[s] = t
    ELSE ""

Rcodes == {"NOERROR", "SERVFAIL", "REFUSED"}
RcodeSuccess == "NOERROR"

OwnerNames == {"example.org.", "www.example.org."}
CoveredTypes == {TypeCodes["SOA"], TypeCodes["NS"]}
Expirations == {k * Hour : k \in 0..MaxExp}

\* A resource record of an answer section.  Only RRSIG records carry
\* TypeCovered and Expiration.
RRSIGs == [Rrtype : {TypeCodes["RRSIG"]}, Name : OwnerNames,
           TypeCovered : CoveredTypes, Expiration : Expirations]

PlainRRs == [Rrtype : {TypeCodes["SOA"]}, Name : {"example.org."},
             TypeCovered : {0}, Expiration : {0}]

RRs == RRSIGs \cup PlainRRs

SeqsUpTo(S, n) == UNION {[1..k -> S] : k \in 0..n}

NoResponse == [err |-> TRUE, Rcode |-> RcodeSuccess, AuthenticatedData |-> FALSE,
               Authoritative |-> FALSE, Answer |-> <<>>]

\* What dnsClient.Exchange can return: an error, or any response.
Responses ==
    {NoResponse} \cup
    [err : {FALSE}, Rcode : Rcodes, AuthenticatedData : BOOLEAN,
     Authoritative : BOOLEAN, Answer : SeqsUpTo(RRs, MaxAnswer)]

Sig(name, type, k) ==
    [Rrtype |-> TypeCodes["RRSIG"], Name |-> name,
     TypeCovered |-> TypeCodes[type], Expiration |-> k * Hour]

Resp(rcode, ad, aa, answer) ==
    [err |-> FALSE, Rcode |-> rcode, AuthenticatedData |-> ad,
     Authoritative |-> aa, Answer |-> answer]

\* The resolvers of the concurrent specification answer by question type,
\* like the handler of runServer: a transport error for any question; a
\* validated, an authoritative, an unsigned and a failed answer for SOA; a
\* validated answer for NS; a transfer of two signed record sets, an unsigned transfer
\* and a refused transfer for AXFR.
NetResponses(qtype) ==
    {NoResponse} \cup
    CASE qtype = TypeCodes["SOA"] ->
            { Resp("NOERROR", TRUE, FALSE, <<Sig("example.org.", "SOA", MaxExp)>>),
              Resp("NOERROR", FALSE, TRUE, <<Sig("example.org.", "SOA", 1)>>),
              Resp("NOERROR", TRUE, FALSE, <<>>),
              Resp("SERVFAIL", TRUE, FALSE, <<>>) }
      [] qtype = TypeCodes["NS"] ->
            { Resp("NOERROR", TRUE, FALSE, <<Sig("example.org.", "NS", 1)>>) }
      [] qtype = TypeCodes["AXFR"] ->
            { Resp("NOERROR", FALSE, TRUE,
                   <<Sig("example.org.", "NS", 1), Sig("example.org.", "SOA", MaxExp)>>),
              Resp("NOERROR", FALSE, TRUE, <<>>),
              Resp("REFUSED", FALSE, TRUE, <<Sig("example.org.", "SOA", 1)>>) }
      [] OTHER -> {}

\* What the exchange can return: anything for the direct call of resolve,
\* the resolvers' answers in a Collect call.
ServerResponses(qtype) ==
    IF cpc = "test" THEN Responses ELSE NetResponses(qtype)

----------------------------------------------------------------------------
(* Configuration *)

SOACheck == [Zone |-> Zone, Record |-> "@", Type |-> "SOA"]
AXFRCheck == [Zone |-> Zone, Record |-> "@", Type |-> "AXFR"]

\* The configurations the concurrent specification starts from.
Configs ==
    { [Records |-> <<SOACheck>>, resolvers |-> <<"r1", "r2">>],
      [Records |-> <<AXFRCheck>>, resolvers |-> <<"r1", "r2">>],
      [Records |-> <<AXFRCheck>>, resolvers |-> <<"r1", "r1">>],
      [Records |-> <<SOACheck, AXFRCheck>>, resolvers |-> <<"r1">>],
      [Records |-> <<SOACheck>>, resolvers |-> <<>>] }

Units == {<<ci, ri>> : ci \in 1..Len(Records), ri \in 1..Len(resolvers)}

\* Keys{Algo, Name, Secret}; NoKey stands for a request without a TSIG record
NoKey == [Algo |-> "", Name |-> "", Secret |-> ""]
GoodKey == [Algo |-> "hmac-sha256.", Name |-> "axfr.", Secret |-> "so6ZGir4GPAqINNh9U5c3A=="]
BadKey == [Algo |-> "hmac-sha256.", Name |-> "axfr.", Secret |-> "YmFkYmFkYmFkYmFkCg=="]

\* e.TsigInfo = map[Records]*Keys{}: no check has a key
NoTsigInfo == [r \in {} |-> NoKey]

\* e.TsigInfo = map[Records]*Keys{record: &key}
TsigInfoFor(record, key) == [r \in {record} |-> key]

\* dns.Server{TsigSecret: ...}: the secret the server holds for a key name
ServerSecret(name) == IF name = "axfr." THEN "so6ZGir4GPAqINNh9U5c3A==" ELSE ""

\* The locals of one goroutine before it runs, with resolves starting as true.
FreshUnit_Resolved ==
    [pc |-> "query",
     msg |-> [Name |-> <<>>, Qtype |-> 0, UDPSize |-> 0, DO |-> FALSE, Tsig |-> NoKey],
     response |-> NoResponse, later |-> <<>>,
     resolves |-> TRUE, expires |-> ZeroTime, i |-> 1]

\* The locals of one goroutine before it runs.
FreshUnit ==
    [pc |-> "query",
     msg |-> [Name |-> <<>>, Qtype |-> 0, UDPSize |-> 0, DO |-> FALSE, Tsig |-> NoKey],
     response |-> NoResponse, later |-> <<>>,
     resolves |-> FALSE, expires |-> ZeroTime, i |-> 1]

\* hostname(record): the formatted name, kept as its pieces
hostname(record) ==
    IF record.Record = "@" THEN <<record.Zone, ".">>
    ELSE <<record.Record, ".", record.Zone, ".">>

----------------------------------------------------------------------------
(* Exporter.resolve *)

\* line 420-421 counting a response as resolving only when it is signed
Trust_Signed(response) ==
    /\ (response.Rcode = RcodeSuccess /\ response.AuthenticatedData)
          \/ response.Authoritative
    /\ \E k \in 1..Len(response.Answer) :
          response.Answer[k].Rrtype = TypeCodes["RRSIG"]

\* line 420-421: && binds tighter than || in Go
Trust(response) ==
    (response.Rcode = RcodeSuccess /\ response.AuthenticatedData)
        \/ response.Authoritative

\* line 427 without the comparison: every signature replaces the selection
Selects_NoCompare(expires, sigexp) ==
    IsZero(expires) \/ ~IsZero(sigexp)

\* line 427 with the comparison turned round: the latest signature wins
Selects_Latest(expires, sigexp) ==
    IsZero(expires) \/ (Before(expires, sigexp) /\ ~IsZero(sigexp))

\* line 427 with <= for Before: among equal expirations the last one wins
Selects_NotStrict(expires, sigexp) ==
    IsZero(expires) \/ (~Before(expires, sigexp) /\ ~IsZero(sigexp))

\* line 427: the condition under which a signature replaces the selection
Selects(expires, sigexp) ==
    IsZero(expires) \/ (Before(sigexp, expires) /\ ~IsZero(sigexp))

IsRRSIG(rr) == rr.Rrtype = TypeCodes["RRSIG"]

\* line 412: the failed zone transfer, decided on the type the record holds
\* when the line runs
AxfrFailed(record, response) ==
    record.Type = "AXFR" /\ response.Rcode # RcodeSuccess

\* lines 400-402
BuildQuery(record) ==
    [Name |-> hostname(record), Qtype |-> StringToType(record.Type),
     UDPSize |-> 4096, DO |-> TRUE, Tsig |-> NoKey]

\* the key e.TsigInfo holds for the record as it reads now, looked up by the
\* record's value
TsigOf(record) ==
    IF record \in DOMAIN TsigInfo THEN TsigInfo[record] ELSE NoKey

\* msg.SetTsig: the request is signed when the check has a key
SetTsig(msg, record) == [msg EXCEPT !.Tsig = TsigOf(record)]

\* the exchange of a signed request with a server that accepts any signature
TsigAccepts_Any(msg) == TRUE

\* the exchange of a signed request succeeds only when the request and the
\* server's reply are signed with the same secret; an unsigned request is
\* served as it is
TsigAccepts(msg) ==
    msg.Tsig = NoKey \/ msg.Tsig.Secret = ServerSecret(msg.Tsig.Name)

\* what the exchange of this request can return
Replies(msg) ==
    IF TsigAccepts(msg) THEN ServerResponses(msg.Qtype) ELSE {NoResponse}

\* an authoritative server with a zone too large for one message
SplitsTransfers(resolver) == resolver = "ns1"

\* a transfer delivered as two messages: the SOA signature in the first,
\* an NS signature expiring before it in the second
SplitTransfers ==
    { << Resp("NOERROR", FALSE, TRUE, <<Sig("example.org.", "SOA", MaxExp)>>),
         Resp("NOERROR", FALSE, TRUE, <<Sig("example.org.", "NS", 1)>>) >> }

\* what the server sends back for this request: one message, or for a
\* zone transfer from a server that splits it, a sequence of messages
Envelopes(resolver, msg) ==
    {<<r>> : r \in Replies(msg)} \cup
    IF /\ SplitsTransfers(resolver)
       /\ msg.Qtype = TypeCodes["AXFR"]
       /\ TsigAccepts(msg)
    THEN SplitTransfers
    ELSE {}

\* lines 400-409: the query is built from the record as it reads now and
\* exchanged; the exchange returns an error or the first message of the
\* reply, and whatever the server sends after that message is not read
Exchange(u) ==
    /\ unit[u].pc = "query"
    /\ LET msg == SetTsig(BuildQuery(rec[u[1]]), rec[u[1]])
       IN  \E t \in Envelopes(resolvers[u[2]], msg) :
              unit' = [unit EXCEPT ![u].msg = msg,
                                   ![u].response = Head(t),
                                   ![u].later = Tail(t),
                                   ![u].pc = IF Head(t).err THEN "ret" ELSE "axfr"]
    /\ UNCHANGED <<Records, resolvers, TsigInfo, other, now, cpc, cycle, wg, rec,
                   e_records, e_resolves, e_expiry, ch, wrote>>

\* lines 411-421
AxfrCheck(u) ==
    /\ unit[u].pc = "axfr"
    /\ IF AxfrFailed(rec[u[1]], unit[u].response)
       THEN unit' = [unit EXCEPT ![u].pc = "ret"]
       ELSE unit' = [unit EXCEPT ![u].resolves = Trust(unit[u].response),
                                 ![u].i = 1,
                                 ![u].pc = "scan"]
    /\ UNCHANGED <<Records, resolvers, TsigInfo, other, now, cpc, cycle, wg, rec,
                   e_records, e_resolves, e_expiry, ch, wrote>>

\* line 342 left out: the goroutines hold &e.Records[i], so the writes of
\* lines 428-429 land in the configured list
RecordsAfter_Aliased(records, copies) == copies

\* lines 340-342: `rec := rec` gives the goroutines of a check a copy of the
\* element of e.Records; the writes of lines 428-429 through &rec land in
\* the copies and e.Records keeps the elements it has
RecordsAfter(records, copies) == records

\* the next record from index i on that line 427 selects, 0 if there is none
RECURSIVE NextSelected(_, _, _)
NextSelected(answer, i, expires) ==
    IF i > Len(answer) THEN 0
    ELSE IF IsRRSIG(answer[i]) /\ Selects(expires, Unix(answer[i].Expiration))
         THEN i
         ELSE NextSelected(answer, i + 1, expires)

\* lines 424-428: the loop runs on to the next signature it selects and
\* writes record.Record, or ends and resolve returns
Scan(u) ==
    /\ unit[u].pc = "scan"
    /\ LET answer == unit[u].response.Answer
           j == NextSelected(answer, unit[u].i, unit[u].expires)
       IN  IF j = 0
           THEN /\ unit' = [unit EXCEPT ![u].i = Len(answer) + 1, ![u].pc = "ret"]
                /\ UNCHANGED rec
           ELSE /\ rec' = [rec EXCEPT ![u[1]].Record = answer[j].Name]
                /\ unit' = [unit EXCEPT ![u].i = j, ![u].pc = "settype"]
    /\ Records' = RecordsAfter(Records, rec')
    /\ UNCHANGED <<resolvers, TsigInfo, other, now, cpc, cycle, wg,
                   e_records, e_resolves, e_expiry, ch, wrote>>

\* lines 429-430
SetType(u) ==
    /\ unit[u].pc = "settype"
    /\ LET rr == unit[u].response.Answer[unit[u].i]
       IN  /\ rec' = [rec EXCEPT ![u[1]].Type = TypeToString(rr.TypeCovered)]
           /\ unit' = [unit EXCEPT ![u].expires = Unix(rr.Expiration),
                                   ![u].i = unit[u].i + 1,
                                   ![u].pc = "scan"]
    /\ Records' = RecordsAfter(Records, rec')
    /\ UNCHANGED <<resolvers, TsigInfo, other, now, cpc, cycle, wg,
                   e_records, e_resolves, e_expiry, ch, wrote>>

ResolveStep(u) ==
    \/ Exchange(u)
    \/ AxfrCheck(u)
    \/ Scan(u)
    \/ SetType(u)

\* The loop of lines 424-433 as a function of the answer section: the
\* selection [expires, Record, Type] after the records from index i on.
RECURSIVE ScanFrom(_, _, _)
ScanFrom(answer, i, st) ==
    IF i > Len(answer) THEN st
    ELSE IF IsRRSIG(answer[i]) /\ Selects(st.expires, Unix(answer[i].Expiration))
         THEN ScanFrom(answer, i + 1,
                       [expires |-> Unix(answer[i].Expiration),
                        Record |-> answer[i].Name,
                        Type |-> TypeToString(answer[i].TypeCovered)])
         ELSE ScanFrom(answer, i + 1, st)

\* resolve as a function of the record it is given and the exchange's outcome
ResolveResult(record, response) ==
    IF response.err \/ AxfrFailed(record, response)
    THEN [resolves |-> FALSE, expires |-> ZeroTime,
          Record |-> record.Record, Type |-> record.Type]
    ELSE LET st == ScanFrom(response.Answer, 1,
                            [expires |-> ZeroTime, Record |-> record.Record,
                             Type |-> record.Type])
         IN  [resolves |-> Trust(response), expires |-> st.expires,
              Record |-> st.Record, Type |-> st.Type]

----------------------------------------------------------------------------
(* Exporter.Collect *)

\* GaugeVec.WithLabelValues(key...).Set(v)
SetGauge(vec, key, v) ==
    [k \in DOMAIN vec \cup {key} |-> IF k = key THEN v ELSE vec[k]]

Labels4(u) == <<resolvers[u[2]], rec[u[1]].Zone, rec[u[1]].Record, rec[u[1]].Type>>
Labels3(u) == <<rec[u[1]].Zone, rec[u[1]].Record, rec[u[1]].Type>>

\* line 376 without the restriction: every resolver's goroutine writes
IsPrimary_Any(u) == TRUE

\* line 376: the comparison is on the address, not on the index
IsPrimary(u) == resolvers[u[2]] = resolvers[1]

\* line 356 without the exclusion: no goroutine skips its metrics
SkipsMetrics_Never(u) == FALSE

\* line 356 skipping the metrics of every pair that did not resolve
SkipsMetrics_Unresolved(u) == rec[u[1]].Type = "AXFR" \/ ~unit[u].resolves

\* line 356: the type the shared record holds once resolve has returned
SkipsMetrics(u) == rec[u[1]].Type = "AXFR"

\* lines 357 and 382 left out: the goroutine returns without wg.Done()
wgDone_Missing(n) == n

\* lines 357 and 382: wg.Done()
wgDone(n) == n - 1

\* line 390 returning while one goroutine is still running
WaitReturns_Early == wg <= 1

\* line 390: wg.Wait() returns once the counter is zero
WaitReturns == wg = 0

Log(u, metric, key, v) == wrote \cup {[u |-> u, metric |-> metric, key |-> key, value |-> v]}

\* lines 334-388: the WaitGroup is set and one goroutine per pair is started
StartCollect ==
    /\ cpc = "idle"
    /\ cycle < MaxCycles
    /\ cycle' = cycle + 1
    /\ wg' = Len(Records) * Len(resolvers)
    /\ rec' = Records
    /\ unit' = [u \in Units |-> FreshUnit]
    /\ ch' = <<>>
    /\ wrote' = {}
    /\ cpc' = "wait"
    /\ UNCHANGED <<Records, resolvers, TsigInfo, other, now, e_records, e_resolves, e_expiry>>

\* lines 352-359: resolve has returned; the zone-transfer exclusion
AfterResolve(u) ==
    /\ cpc \in {"wait", "collect_records", "collect_resolves", "collect_expiry"}
    /\ unit[u].pc = "ret"
    /\ IF SkipsMetrics(u)
       THEN /\ wg' = wgDone(wg)
            /\ unit' = [unit EXCEPT ![u].pc = "done"]
       ELSE /\ unit' = [unit EXCEPT ![u].pc = "set_resolves"]
            /\ UNCHANGED wg
    /\ UNCHANGED <<Records, resolvers, TsigInfo, other, now, cpc, cycle, rec,
                   e_records, e_resolves, e_expiry, ch, wrote>>

\* lines 361-363, and wg.Done() of line 382 when nothing is left to write
SetResolves(u) ==
    /\ unit[u].pc = "set_resolves"
    /\ LET v == IF unit[u].resolves THEN 1 ELSE 0
           next == IF unit[u].resolves THEN "set_expiry"
                   ELSE IF IsPrimary(u) THEN "set_records" ELSE "done"
       IN  /\ e_resolves' = SetGauge(e_resolves, Labels4(u), v)
           /\ wrote' = Log(u, "resolves", Labels4(u), v)
           /\ unit' = [unit EXCEPT ![u].pc = next]
           /\ wg' = IF next = "done" THEN wgDone(wg) ELSE wg
    /\ UNCHANGED <<Records, resolvers, TsigInfo, other, now, cpc, cycle, rec,
                   e_records, e_expiry, ch>>

\* lines 365-370, and wg.Done() of line 382 when nothing is left to write
SetExpiry(u) ==
    /\ unit[u].pc = "set_expiry"
    /\ LET v == unit[u].expires
           next == IF IsPrimary(u) THEN "set_records" ELSE "done"
       IN  /\ e_expiry' = SetGauge(e_expiry, Labels4(u), v)
           /\ wrote' = Log(u, "expiry", Labels4(u), v)
           /\ unit' = [unit EXCEPT ![u].pc = next]
           /\ wg' = IF next = "done" THEN wgDone(wg) ELSE wg
    /\ UNCHANGED <<Records, resolvers, TsigInfo, other, now, cpc, cycle, rec,
                   e_records, e_resolves, ch>>

\* lines 372-382
SetRecords(u) ==
    /\ unit[u].pc = "set_records"
    /\ LET v == DaysLeft(unit[u].expires, now)
       IN  /\ e_records' = SetGauge(e_records, Labels3(u), v)
           /\ wrote' = Log(u, "records", Labels3(u), v)
    /\ unit' = [unit EXCEPT ![u].pc = "done"]
    /\ wg' = wgDone(wg)
    /\ UNCHANGED <<Records, resolvers, TsigInfo, other, now, cpc, cycle, rec,
                   e_resolves, e_expiry, ch>>

\* line 390
Wait ==
    /\ cpc = "wait"
    /\ WaitReturns
    /\ cpc' = "collect_records"
    /\ UNCHANGED <<Records, resolvers, TsigInfo, other, now, cycle, wg, rec, unit,
                   e_records, e_resolves, e_expiry, ch, wrote>>

Family(name, vec) == [name |-> name, series |-> vec]

\* line 392
CollectRecords ==
    /\ cpc = "collect_records"
    /\ ch' = Append(ch, Family("dnssec_zone_record_days_left", e_records))
    /\ cpc' = "collect_resolves"
    /\ UNCHANGED <<Records, resolvers, TsigInfo, other, now, cycle, wg, rec, unit,
                   e_records, e_resolves, e_expiry, wrote>>

\* line 393
CollectResolves ==
    /\ cpc = "collect_resolves"
    /\ ch' = Append(ch, Family("dnssec_zone_record_resolves", e_resolves))
    /\ cpc' = "collect_expiry"
    /\ UNCHANGED <<Records, resolvers, TsigInfo, other, now, cycle, wg, rec, unit,
                   e_records, e_resolves, e_expiry, wrote>>

\* lines 394-396: the last family is sent and Collect returns
CollectExpiry ==
    /\ cpc = "collect_expiry"
    /\ ch' = Append(ch, Family("dnssec_zone_record_earliest_rrsig_expiry", e_expiry))
    /\ cpc' = "idle"
    /\ UNCHANGED <<Records, resolvers, TsigInfo, other, now, cycle, wg, rec, unit,
                   e_records, e_resolves, e_expiry, wrote>>

EmptyVec == [k \in {} |-> 0]

\* a Collect call that is not running
IdleCall ==
    [cpc |-> "idle", wg |-> 0, rec |-> Records, unit |-> [u \in {} |-> FreshUnit],
     ch |-> <<>>, wrote |-> {}]

\* NewDNSSECExporter and the decoded configuration, before the first scrape
InitWith(configs, clocks) ==
    /\ \E c \in configs : Records = c.Records /\ resolvers = c.resolvers
    /\ TsigInfo = NoTsigInfo
    /\ other = IdleCall
    /\ now \in clocks
    /\ cpc = "idle"
    /\ cycle = 0
    /\ wg = 0
    /\ rec = Records
    /\ unit = [u \in {} |-> FreshUnit]
    /\ e_records = EmptyVec
    /\ e_resolves = EmptyVec
    /\ e_expiry = EmptyVec
    /\ ch = <<>>
    /\ wrote = {}

Init == InitWith(Configs, Clock)

Next ==
    \/ StartCollect
    \/ \E u \in DOMAIN unit : ResolveStep(u)
    \/ \E u \in DOMAIN unit : AfterResolve(u)
    \/ \E u \in DOMAIN unit : SetResolves(u)
    \/ \E u \in DOMAIN unit : SetExpiry(u)
    \/ \E u \in DOMAIN unit : SetRecords(u)
    \/ Wait
    \/ CollectRecords
    \/ CollectResolves
    \/ CollectExpiry

Spec == Init /\ [][Next]_vars

----------------------------------------------------------------------------
(* Two Collect calls on one Exporter: promhttp serves every scrape in its  *)
(* own goroutine and the registry calls Collect from each.  One call is    *)
(* held by the variables of Spec, the other one by `other`; a context      *)
(* switch exchanges them.  The gauge vectors belong to the Exporter and    *)
(* are shared.                                                             *)

ThisCall ==
    [cpc |-> cpc, wg |-> wg, rec |-> rec, unit |-> unit, ch |-> ch, wrote |-> wrote]

Switch ==
    /\ cpc # "test"
    /\ other' = ThisCall
    /\ cpc' = other.cpc
    /\ wg' = other.wg
    /\ rec' = other.rec
    /\ unit' = other.unit
    /\ ch' = other.ch
    /\ wrote' = other.wrote
    /\ UNCHANGED <<Records, resolvers, TsigInfo, now, cycle,
                   e_records, e_resolves, e_expiry>>

OverlapConfigs == { [Records |-> <<SOACheck>>, resolvers |-> <<"r1">>] }

InitOverlap == InitWith(OverlapConfigs, Clock)

NextOverlap == Next \/ Switch

SpecOverlap == InitOverlap /\ [][NextOverlap]_vars

----------------------------------------------------------------------------
(* Collect calls of successive scrapes, one after the other, each in the   *)
(* goroutine of its own scrape: when a call has returned, the next scrape  *)
(* takes over and `other` keeps the locals the returned call ended with.   *)

Handoff ==
    /\ cpc = "idle"
    /\ cycle > 0
    /\ cycle < MaxCycles
    /\ Switch

SuccessiveConfigs == { [Records |-> <<AXFRCheck>>, resolvers |-> <<"r1", "r2">>] }

InitSuccessive == InitWith(SuccessiveConfigs, Clock)

NextSuccessive == Next \/ Handoff

SpecSuccessive == InitSuccessive /\ [][NextSuccessive]_vars

----------------------------------------------------------------------------
(* Collect calls with the scheduler running every goroutine that can run.  *)

FairConfigs ==
    { [Records |-> <<SOACheck, AXFRCheck>>, resolvers |-> <<"r1">>],
      [Records |-> <<AXFRCheck>>, resolvers |-> <<"r1", "r2">>],
      [Records |-> <<SOACheck>>, resolvers |-> <<>>],
      [Records |-> <<>>, resolvers |-> <<"r1">>] }

InitFair == InitWith(FairConfigs, Clock)

SpecFair == InitFair /\ [][Next]_vars /\ WF_vars(Next)

----------------------------------------------------------------------------
(* Collect calls under a clock read at half hours: before, between and     *)
(* after the expirations the resolver answers with.                        *)

FineClock == {Hour \div 2, Hour + Hour \div 2, 2 * Hour}

ClockConfigs == { [Records |-> <<SOACheck>>, resolvers |-> <<"r1">>] }

InitClock == InitWith(ClockConfigs, FineClock)

SpecClock == InitClock /\ [][Next]_vars

----------------------------------------------------------------------------
(* Collect calls against an authoritative server that delivers a zone      *)
(* transfer as several messages.                                           *)

TransferConfigs ==
    { [Records |-> <<AXFRCheck>>, resolvers |-> <<"ns1">>],
      [Records |-> <<SOACheck, AXFRCheck>>, resolvers |-> <<"ns1">>] }

InitTransfer == InitWith(TransferConfigs, Clock)

SpecTransfer == InitTransfer /\ [][Next]_vars

----------------------------------------------------------------------------
(* One direct call of resolve, as src/main_test.go makes it:               *)
(* record := Records{...}; e.resolve(&record, addr[0])                     *)

TestChecks == {SOACheck, AXFRCheck,
               [Zone |-> Zone, Record |-> "www", Type |-> "NS"]}

TheCall == <<1, 1>>

InitResolve ==
    /\ \E r \in TestChecks :
          /\ Records = <<r>>
          /\ TsigInfo \in IF r.Type = "AXFR"
                          THEN {NoTsigInfo, TsigInfoFor(r, GoodKey), TsigInfoFor(r, BadKey)}
                          ELSE {NoTsigInfo}
    /\ resolvers = <<"r1">>
    /\ other = IdleCall
    /\ now \in Clock
    /\ cpc = "test"
    /\ cycle = 0
    /\ wg = 0
    /\ rec = Records
    /\ unit = [u \in {TheCall} |-> FreshUnit]
    /\ e_records = EmptyVec
    /\ e_resolves = EmptyVec
    /\ e_expiry = EmptyVec
    /\ ch = <<>>
    /\ wrote = {}

NextResolve == ResolveStep(TheCall)

SpecResolve == InitResolve /\ [][NextResolve]_vars

----------------------------------------------------------------------------
(* Properties of resolve *)

Configured(u) == Records[u[1]]

Returned(u) == unit[u].pc \notin {"query", "axfr", "scan", "settype"}

Answered(u) == Returned(u) /\ ~unit[u].response.err

\* C1: for a standard check, resolves holds exactly when the rcode is
\* SUCCESS and the AD or the AA flag is set.
C1_StandardTrust ==
    \A u \in DOMAIN unit :
        (Answered(u) /\ Configured(u).Type # "AXFR") =>
            (unit[u].resolves <=>
                (/\ unit[u].response.Rcode = RcodeSuccess
                 /\ (unit[u].response.AuthenticatedData
                        \/ unit[u].response.Authoritative)))

\* C2: for a zone-transfer check, resolves holds exactly when the rcode is
\* SUCCESS, whatever AD and AA are, and a non-SUCCESS rcode leaves the
\* expiry unset, whatever the sibling goroutines have done.
C2_TransferTrust ==
    \A u \in DOMAIN unit :
        (Answered(u) /\ Configured(u).Type = "AXFR") =>
            /\ unit[u].resolves <=> (unit[u].response.Rcode = RcodeSuccess)
            /\ (unit[u].response.Rcode # RcodeSuccess) => IsZero(unit[u].expires)

\* C3: the selected expiry is never the expiration of a signature whose
\* expiration timestamp is 0: it is unset or a non-zero timestamp.
C3_ZeroNeverSelected ==
    \A u \in DOMAIN unit : unit[u].expires # Unix(0)

Perms(n) == {p \in [1..n -> 1..n] : \A a, b \in 1..n : p[a] = p[b] => a = b}

Permuted(response, p) ==
    [response EXCEPT !.Answer = [k \in 1..Len(response.Answer) |-> response.Answer[p[k]]]]

\* what this call selected: owner name, covered type, expiration
Selected(u) == <<rec[u[1]].Record, rec[u[1]].Type, unit[u].expires>>

SelectedOf(r) == <<r.Record, r.Type, r.expires>>

Signatures(answer) == {k \in 1..Len(answer) : IsRRSIG(answer[k])}

\* the signatures of the answer section that carry its smallest expiration
Earliest(answer) ==
    {k \in Signatures(answer) :
        \A j \in Signatures(answer) : answer[k].Expiration <= answer[j].Expiration}

NonZeroSignatures(answer) ==
    \A k \in Signatures(answer) : answer[k].Expiration # 0

\* C4 as stated: every ordering of the answer section selects the same
\* (owner name, covered type, expiration).  Stated over the answer sections
\* whose signatures all carry a non-zero expiration, two of which may carry
\* the same one.
C4_PermutationInvariant ==
    \A u \in DOMAIN unit :
        (Answered(u) /\ NonZeroSignatures(unit[u].response.Answer)) =>
            \A p \in Perms(Len(unit[u].response.Answer)) :
                SelectedOf(ResolveResult(Configured(u), Permuted(unit[u].response, p)))
                    = Selected(u)

\* C4 as amended: every ordering of the answer section selects the same
\* expiration; the owner name and covered type are those of the first
\* signature, in arrival order, that carries it, hence the same for every
\* ordering when the signatures carrying it agree on owner and type.
C4_ExpirationInvariant ==
    \A u \in DOMAIN unit :
        Answered(u) =>
            LET answer == unit[u].response.Answer
                agree == \A j, k \in Earliest(answer) :
                            /\ answer[j].Name = answer[k].Name
                            /\ answer[j].TypeCovered = answer[k].TypeCovered
            IN  \A p \in Perms(Len(answer)) :
                    LET pr == Permuted(unit[u].response, p)
                        r == ResolveResult(Configured(u), pr)
                        first == CHOOSE k \in Earliest(pr.Answer) :
                                    \A j \in Earliest(pr.Answer) : k <= j
                    IN  /\ r.expires = unit[u].expires
                        /\ agree => SelectedOf(r) = Selected(u)
                        /\ (Earliest(pr.Answer) # {} /\ ~IsZero(r.expires)) =>
                              /\ r.Record = pr.Answer[first].Name
                              /\ r.Type = TypeToString(pr.Answer[first].TypeCovered)

\* C4 witness: the call scanned two signatures of different owners, types
\* and expirations, the later-expiring one first.
C4_Witness ==
    \E u \in DOMAIN unit :
        /\ Answered(u)
        /\ LET answer == unit[u].response.Answer
           IN  /\ Len(answer) = 2
               /\ IsRRSIG(answer[1]) /\ IsRRSIG(answer[2])
               /\ answer[2].Expiration < answer[1].Expiration
               /\ answer[1].Name # answer[2].Name
               /\ answer[1].TypeCovered # answer[2].TypeCovered
               /\ unit[u].expires = Unix(answer[2].Expiration)

\* C5 as stated: when the answer section holds signatures, the expiry
\* returned is the expiration of one of them and no later than that of any
\* signature with a non-zero expiration.
C5_EarliestOfPresent ==
    \A u \in DOMAIN unit :
        LET answer == unit[u].response.Answer
        IN  (Answered(u) /\ Signatures(answer) # {}) =>
                /\ \E k \in Signatures(answer) :
                      unit[u].expires = Unix(answer[k].Expiration)
                /\ \A k \in Signatures(answer) :
                      answer[k].Expiration # 0 =>
                          ~Before(Unix(answer[k].Expiration), unit[u].expires)

\* C5 as amended: the same, for every call that did not return at the
\* failed zone transfer of lines 412-416 (there the expiry stays unset).
C5_EarliestOfScanned ==
    \A u \in DOMAIN unit :
        LET answer == unit[u].response.Answer
        IN  (Answered(u) /\ Signatures(answer) # {}) =>
                IF AxfrFailed(Configured(u), unit[u].response)
                THEN IsZero(unit[u].expires)
                ELSE /\ \E k \in Signatures(answer) :
                           unit[u].expires = Unix(answer[k].Expiration)
                     /\ \A k \in Signatures(answer) :
                           answer[k].Expiration # 0 =>
                               ~Before(Unix(answer[k].Expiration), unit[u].expires)

\* C5 witness: two signatures with non-zero expirations were scanned, the
\* earlier one first, and the earlier one is the expiry returned.
C5_Witness ==
    \E u \in DOMAIN unit :
        /\ Answered(u)
        /\ LET answer == unit[u].response.Answer
           IN  /\ Signatures(answer) = {1, 2}
               /\ 0 < answer[1].Expiration
               /\ answer[1].Expiration < answer[2].Expiration
               /\ unit[u].expires = Unix(answer[1].Expiration)

----------------------------------------------------------------------------
(* Properties of Collect *)

\* the Collect call has sent all three families and returned
Published == cpc = "idle" /\ cycle > 0

WritesOf(u, metric) == {w \in wrote : w.u = u /\ w.metric = metric}

\* C6 as stated: the goroutine of a zone-transfer check never sets a
\* dnssec_zone_record_resolves series.
C6_NoResolvesForTransfer ==
    \A u \in DOMAIN unit :
        Configured(u).Type = "AXFR" => WritesOf(u, "resolves") = {}

\* C6 as amended: no dnssec_zone_record_resolves series carries the type
\* label AXFR, neither in the gauge nor in what a call publishes; a
\* goroutine of a zone-transfer check sets a resolves series only under the
\* covered type of a selected signature.
C6_NoAXFRLabel ==
    /\ \A k \in DOMAIN e_resolves : k[4] # "AXFR"
    /\ \A n \in 1..Len(ch) : \A k \in DOMAIN ch[n].series : k[Len(k)] # "AXFR"
    /\ \A u \in DOMAIN unit :
          Configured(u).Type = "AXFR" =>
              \A w \in WritesOf(u, "resolves") :
                  StringToType(w.key[4]) \in CoveredTypes

\* C6 witness: in one call a zone-transfer goroutine whose transfer was
\* refused has finished without a series, and its sibling, whose transfer
\* selected a signature, has set a resolves series.
C6_Witness ==
    \E u, v \in DOMAIN unit :
        /\ Configured(u).Type = "AXFR" /\ Configured(v).Type = "AXFR"
        /\ unit[u].pc = "done" /\ unit[v].pc = "done"
        /\ ~unit[u].response.err /\ unit[u].response.Rcode = "REFUSED"
        /\ \A w \in wrote : w.u # u
        /\ WritesOf(v, "resolves") # {}

\* C7: a published set holds an earliest-expiry series only if a pair of
\* that same call resolved and wrote it.
C7_ExpiryOnlyIfResolved ==
    Published =>
        \A k \in DOMAIN ch[3].series :
            \E w \in wrote :
                /\ w.metric = "expiry"
                /\ w.key = k
                /\ unit[w.u].resolves

Distinct(addresses) ==
    \A a, b \in 1..Len(addresses) : addresses[a] = addresses[b] => a = b

PrimaryFailed(ci) ==
    ~unit[<<ci, 1>>].resolves \/ IsZero(unit[<<ci, 1>>].expires)

\* C9 as stated: for every check, when the primary resolver's evaluation
\* does not resolve or finds no signature, the call still writes a
\* days-left series for the check, from that evaluation's expiry.
C9_DaysLeftNeverOmitted ==
    (Published /\ Len(resolvers) > 0) =>
        \A ci \in 1..Len(Records) :
            PrimaryFailed(ci) =>
                \E w \in WritesOf(<<ci, 1>>, "records") :
                    w.value = DaysLeft(unit[<<ci, 1>>].expires, now)

\* C9 as amended: the same for every standard check; the goroutine of a
\* zone-transfer check writes no series when the record still reads AXFR
\* after its resolve.
C9_StandardDaysLeftWritten ==
    (Published /\ Len(resolvers) > 0) =>
        \A ci \in 1..Len(Records) :
            (PrimaryFailed(ci) /\ Records[ci].Type # "AXFR") =>
                \E w \in WritesOf(<<ci, 1>>, "records") :
                    w.value = DaysLeft(unit[<<ci, 1>>].expires, now)

\* C9 witness: the exchange of a standard check with the primary resolver
\* failed, and the call published a days-left series computed from the
\* unset expiry.
C9_Witness ==
    /\ Published /\ Len(resolvers) > 0
    /\ Records[1].Type # "AXFR"
    /\ unit[<<1, 1>>].response.err
    /\ \E w \in WritesOf(<<1, 1>>, "records") :
          /\ w.value = MinDurationHours
          /\ w.key \in DOMAIN ch[1].series
          /\ ch[1].series[w.key] = MinDurationHours

\* C10: within a Collect call nothing is sent on the channel, and the call
\* is not past wg.Wait(), before every goroutine of the call has finished.
C10_Barrier ==
    (Len(ch) > 0 \/ cpc \in {"collect_records", "collect_resolves", "collect_expiry"}) =>
        \A u \in DOMAIN unit : unit[u].pc = "done"

\* C10 witness: the call is past the barrier with two goroutines finished,
\* one after a transport error and one after a resolved answer.
C10_Witness ==
    /\ cpc = "collect_records"
    /\ \E u, v \in DOMAIN unit :
          /\ unit[u].pc = "done" /\ unit[u].response.err
          /\ unit[v].pc = "done" /\ unit[v].resolves
          /\ WritesOf(v, "expiry") # {}

----------------------------------------------------------------------------
(* Properties of concurrent and successive calls *)

MetricOf(n) == <<"records", "resolves", "expiry">>[n]

Publishing == cpc \in {"collect_records", "collect_resolves", "collect_expiry"}

\* the goroutines of a call that have set one series and have more to set
Midway(call) ==
    {u \in DOMAIN call.unit : call.unit[u].pc \in {"set_expiry", "set_records"}}

\* C11: when two Collect calls overlap, no call publishes while a goroutine
\* of the other call is midway through setting its series, and every series
\* a call publishes holds a value set by that call's own goroutines: where
\* they set the series, one of the values they set, and never a value set by
\* the goroutines of the call that is still running beside it.
C11_CyclesIsolated ==
    /\ Publishing => Midway(other) = {}
    /\ Published =>
          \A n \in 1..Len(ch) : \A k \in DOMAIN ch[n].series :
              LET own == {w \in wrote : w.metric = MetricOf(n) /\ w.key = k}
                  foreign == {w \in other.wrote : w.metric = MetricOf(n) /\ w.key = k}
              IN  IF own # {}
                  THEN \E w \in own : w.value = ch[n].series[k]
                  ELSE other.cpc # "idle" => foreign = {}

Completed == {u \in DOMAIN unit : unit[u].pc = "done"}

\* C12: in every Collect call there is exactly one goroutine per (check,
\* resolver) pair, and the completions signalled so far are exactly those of
\* the goroutines that have finished, one each on every path: the counter
\* the barrier was set to, |Records| x |resolvers|, less the completions is
\* the number of goroutines still running, never negative, and zero once
\* the call is past the barrier.
C12_CompletionsCounted ==
    cycle > 0 =>
        /\ DOMAIN unit = Units
        /\ wg = Len(Records) * Len(resolvers) - Cardinality(Completed)
        /\ wg >= 0
        /\ cpc # "wait" => (wg = 0 /\ Completed = Units)

\* C12 witness: a call has returned after two goroutines finished on
\* different paths: the zone-transfer one after a transport error, without
\* a series, and the standard one after an answer that did not resolve.
C12_Witness ==
    /\ Published
    /\ Cardinality(Completed) = 2
    /\ \E u, v \in DOMAIN unit :
          /\ Configured(u).Type = "AXFR" /\ unit[u].response.err
          /\ \A w \in wrote : w.u # u
          /\ Configured(v).Type # "AXFR" /\ ~unit[v].response.err
          /\ ~unit[v].resolves
          /\ \E w \in WritesOf(v, "resolves") : w.value = 0

\* C13: the record a goroutine works on is its own: once its resolve has
\* returned, the record reads as the configured check with the owner name
\* and covered type this goroutine's own resolve selected, whatever the
\* other goroutines of the call do.
C13_RecordNotShared ==
    \A u \in DOMAIN unit :
        (cpc # "idle" /\ Returned(u)) =>
            LET r == ResolveResult(Configured(u), unit[u].response)
            IN  <<rec[u[1]].Record, rec[u[1]].Type>> = <<r.Record, r.Type>>

----------------------------------------------------------------------------
(* Properties of the check's identity *)

ConfiguredLabels(u) == <<Configured(u).Zone, Configured(u).Record, Configured(u).Type>>

\* the zone, record and type label values of a series key
Identity(key) == SubSeq(key, Len(key) - 2, Len(key))

\* C14: every series set for a standard check carries the configured
\* check's zone, record and type as label values, whether or not the
\* response held signatures.
C14_ConfiguredLabels ==
    \A w \in wrote :
        Configured(w.u).Type # "AXFR" => Identity(w.key) = ConfiguredLabels(w.u)

\* the first signature, in arrival order, that carries the smallest expiration
FirstEarliest(answer) ==
    CHOOSE k \in Earliest(answer) : \A j \in Earliest(answer) : k <= j

\* C15: after resolve on a zone-transfer check whose transfer succeeded
\* with signatures in it, the record's owner name and type are those of a
\* signature whose expiration is the expiry returned, the earliest of the
\* transfer: of the first such signature in arrival order.
C15_EffectiveIdentity ==
    \A u \in DOMAIN unit :
        LET answer == unit[u].response.Answer
        IN  (/\ Answered(u)
             /\ Configured(u).Type = "AXFR"
             /\ unit[u].response.Rcode = RcodeSuccess
             /\ Signatures(answer) # {}) =>
                LET s == answer[FirstEarliest(answer)]
                IN  /\ unit[u].expires = Unix(s.Expiration)
                    /\ rec[u[1]].Record = s.Name
                    /\ rec[u[1]].Type = TypeToString(s.TypeCovered)

\* C15 witness: the transfer held the SOA signature and then an NS
\* signature expiring before it, and resolve left the type NS.
C15_Witness ==
    \E u \in DOMAIN unit :
        LET answer == unit[u].response.Answer
        IN  /\ Answered(u)
            /\ Configured(u).Type = "AXFR"
            /\ Len(answer) = 2
            /\ IsRRSIG(answer[1]) /\ answer[1].TypeCovered = TypeCodes["SOA"]
            /\ IsRRSIG(answer[2]) /\ answer[2].TypeCovered = TypeCodes["NS"]
            /\ answer[2].Expiration < answer[1].Expiration
            /\ rec[u[1]].Type = "NS"
            /\ unit[u].expires = Unix(answer[2].Expiration)

HasKey(u) == Configured(u) \in DOMAIN TsigInfo

----------------------------------------------------------------------------
(* Properties of a failed exchange *)

\* the exchange of this goroutine returned an error
Errored(u) == unit[u].pc # "query" /\ unit[u].response.err

----------------------------------------------------------------------------
(* Properties of the published values *)

\* C18: once the goroutine of a standard check has finished, the resolves
\* series of its (check, resolver) pair, the one labelled with the resolver
\* and the configured check, holds 1 if its resolve returned true and 0
\* otherwise; no resolves series holds anything but 0 or 1.
C18_ResolvesReflectsResult ==
    /\ \A k \in DOMAIN e_resolves : e_resolves[k] \in {0, 1}
    /\ \A u \in DOMAIN unit :
          (/\ Configured(u).Type # "AXFR"
           /\ unit[u].pc = "done"
           /\ Distinct(resolvers)) =>
              LET k == <<resolvers[u[2]]>> \o ConfiguredLabels(u)
              IN  /\ k \in DOMAIN e_resolves
                  /\ e_resolves[k] = IF unit[u].resolves THEN 1 ELSE 0

\* resolve of this goroutine of the call has returned
ReturnedIn(call, u) == call.unit[u].pc \notin {"query", "axfr", "scan", "settype"}

\* what resolve returned to this goroutine of the call
ResultIn(call, u) == <<call.unit[u].resolves, call.unit[u].expires>>

\* C19: two evaluations of the same configured check that were answered
\* with the same response return the same resolves and expiry, be they
\* goroutines of one call or of two successive calls.
C19_Idempotent ==
    \A c, d \in {ThisCall, other} :
        \A u \in DOMAIN c.unit, v \in DOMAIN d.unit :
            (/\ u[1] = v[1]
             /\ ReturnedIn(c, u) /\ ReturnedIn(d, v)
             /\ ~c.unit[u].response.err
             /\ c.unit[u].response = d.unit[v].response) =>
                ResultIn(c, u) = ResultIn(d, v)

\* the days-left writes of goroutines that selected a signature
DaysLeftWrites ==
    {w \in wrote : w.metric = "records" /\ ~IsZero(unit[w.u].expires)}

\* C20 as stated: the days-left value written is strictly negative whenever
\* the selected expiration precedes the clock, and non-negative whenever it
\* lies after it.
C20_SignOfDaysLeft ==
    \A w \in DaysLeftWrites :
        LET expires == unit[w.u].expires
        IN  /\ Before(expires, now) => w.value < 0
            /\ Before(now, expires) => w.value >= 0

\* C20 as amended: the value is strictly negative whenever the selected
\* expiration lies a full hour or more before the clock, zero whenever it
\* lies less than an hour before or after it, and positive whenever it
\* lies a full hour or more after it.
C20_SignByWholeHours ==
    \A w \in DaysLeftWrites :
        LET expires == unit[w.u].expires
        IN  /\ expires + Hour <= now => w.value < 0
            /\ (now - Hour < expires /\ expires < now + Hour) => w.value = 0
            /\ now + Hour <= expires => w.value > 0

\* C20 witness: a signature that expired half an hour before the clock was
\* selected and the days-left value written for it is 0.
C20_Witness ==
    \E w \in DaysLeftWrites :
        /\ unit[w.u].expires + Hour \div 2 = now
        /\ w.value = 0
        /\ IsPrimary(w.u)

----------------------------------------------------------------------------
(* Properties of the query and of the independence of the pairs *)

\* C21: every query sent is built from the configured check alone: the
\* name is "zone." for the record "@" and "record.zone." otherwise, the
\* question type is the configured type, and the query carries EDNS0 with
\* payload size 4096 and the DO flag.
C21_QueryFromConfiguredCheck ==
    \A u \in DOMAIN unit :
        unit[u].pc # "query" =>
            /\ unit[u].msg.Name =
                  IF Configured(u).Record = "@"
                  THEN <<Configured(u).Zone, ".">>
                  ELSE <<Configured(u).Record, ".", Configured(u).Zone, ".">>
            /\ unit[u].msg.Qtype = StringToType(Configured(u).Type)
            /\ unit[u].msg.UDPSize = 4096
            /\ unit[u].msg.DO

\* the series a goroutine of the call has set, by metric and labels
SeriesOf(call, u) == {<<w.metric, w.key>> : w \in {x \in call.wrote : x.u = u}}

\* C22: what a (check, resolver) pair produces depends on the configured
\* check and on that resolver's response only: in two runs of a Collect
\* call in which the pair's resolver gave the same answer, the pair's
\* goroutine sends the same query, gets the same resolves and expiry from
\* resolve and sets the same series, whatever the other resolver answered
\* and however the goroutines were scheduled.
C22_PairsIndependent ==
    \A u \in DOMAIN unit \cap DOMAIN other.unit :
        (/\ unit[u].pc = "done" /\ other.unit[u].pc = "done"
         /\ unit[u].response = other.unit[u].response) =>
            /\ unit[u].msg = other.unit[u].msg
            /\ ResultIn(ThisCall, u) = ResultIn(other, u)
            /\ SeriesOf(ThisCall, u) = SeriesOf(other, u)

\* C23: an earliest-expiry series is only ever set to the expiration of a
\* signature of the answer section the goroutine received, never from an
\* unset expiry.
C23_ExpiryFromSignature ==
    \A w \in wrote :
        w.metric = "expiry" =>
            LET answer == unit[w.u].response.Answer
            IN  /\ ~IsZero(w.value)
                /\ \E k \in Signatures(answer) : w.value = Unix(answer[k].Expiration)

----------------------------------------------------------------------------
(* Properties of a zone transfer *)

\* the answer sections of a sequence of messages, one after the other
RECURSIVE Answers(_)
Answers(msgs) ==
    IF msgs = <<>> THEN <<>> ELSE Head(msgs).Answer \o Answers(Tail(msgs))

\* every record of the reply the server sent to this goroutine
Transferred(u) == Answers(<<unit[u].response>> \o unit[u].later)

\* C24: for a zone-transfer check answered with a successful transfer,
\* resolve returns only when every message of the transfer has been read,
\* and the expiry it returns is the earliest expiration among the
\* signatures of all the messages.
C24_WholeTransfer ==
    \A u \in DOMAIN unit :
        (/\ Answered(u)
         /\ Configured(u).Type = "AXFR"
         /\ unit[u].response.Rcode = RcodeSuccess) =>
            /\ unit[u].later = <<>>
            /\ Signatures(Transferred(u)) # {} =>
                  unit[u].expires =
                      Unix(Transferred(u)[FirstEarliest(Transferred(u))].Expiration)

----------------------------------------------------------------------------
(* Properties of an unsigned answer *)

\* the response with its answer section replaced by one signature
SignedLike(response) ==
    {[response EXCEPT !.Answer = <<s>>] : s \in RRSIGs}

\* C25: after resolve on a response without a signature in its answer
\* section the expiry is unset and the record is the configured one, and
\* resolves is what resolve returns for the same rcode and flags with a
\* signature in the answer section.
C25_UnsignedAnswer ==
    \A u \in DOMAIN unit :
        (Answered(u) /\ Signatures(unit[u].response.Answer) = {}) =>
            /\ IsZero(unit[u].expires)
            /\ rec[u[1]] = Configured(u)
            /\ \A r \in SignedLike(unit[u].response) :
                  ResolveResult(Configured(u), r).resolves = unit[u].resolves

\* C25 witness: an answer section with the SOA record but no signature,
\* flagged AD with rcode SUCCESS, resolved with the expiry unset.
C25_Witness ==
    \E u \in DOMAIN unit :
        /\ Answered(u)
        /\ Len(unit[u].response.Answer) = 1
        /\ Signatures(unit[u].response.Answer) = {}
        /\ unit[u].response.Rcode = RcodeSuccess
        /\ unit[u].response.AuthenticatedData
        /\ ~unit[u].response.Authoritative
        /\ unit[u].resolves
        /\ IsZero(unit[u].expires)

----------------------------------------------------------------------------
(* Properties of the configuration across cycles *)

\* C26: no step of Collect or resolve changes Exporter.Records or
\* Exporter.resolvers, whatever the responses, and every Collect call
\* starts its checks from the elements of Exporter.Records.
C26_ConfigurationKept ==
    [][/\ Records' = Records
       /\ resolvers' = resolvers
       /\ cycle' # cycle => rec' = Records]_vars

\* C26 witness: the second call has started every goroutine on the
\* configured checks after an earlier call wrote a days-left series under
\* labels that a signature gave it.
C26_Witness ==
    /\ cycle = 2
    /\ cpc = "wait"
    /\ rec = Records
    /\ \A u \in DOMAIN unit : unit[u] = FreshUnit
    /\ \E k \in DOMAIN e_records :
          \A c \in 1..Len(Records) :
              k # <<Records[c].Zone, Records[c].Record, Records[c].Type>>

----------------------------------------------------------------------------
(* Termination of Collect *)

\* C27: every Collect call that has started its goroutines goes on to
\* send its three families and return, for every number of checks and
\* resolvers, none included, when every goroutine that can run does run.
C27_CollectReturns ==
    \A n \in 1..MaxCycles :
        (cycle = n /\ cpc = "wait") ~> (cycle = n /\ cpc = "idle" /\ Len(ch) = 3)

\* C27 witness: a call with a check and no resolver has started no
\* goroutine, sent its three families and returned.
C27_Witness ==
    /\ Len(Records) > 0
    /\ Len(resolvers) = 0
    /\ cycle > 0
    /\ cpc = "idle"
    /\ Len(ch) = 3
    /\ DOMAIN unit = {}

----------------------------------------------------------------------------
(* Properties of the published days-left family *)

\* the series of a family that Collect has sent
SeriesIn(name) ==
    UNION {DOMAIN ch[k].series : k \in {j \in 1..Len(ch) : ch[j].name = name}}

\* C28: when Collect has returned, the family dnssec_zone_record_days_left
\* it sent holds at most one series per configured check.
C28_OneSeriesPerCheck ==
    Published =>
        Cardinality(SeriesIn("dnssec_zone_record_days_left")) <= Len(Records)

====
